---- MODULE Spec2Model ----
(***************************************************************************)
(* Model of the LLM notifier (src/src/main.ts): LLMNotifier.sendNotification *)
(* as a sequence of synchronous segments separated by its awaits, the      *)
(* provider rotation of LLMNotifierProvider.selectProvider, withTimeout,   *)
(* and the settings the pipeline reads.                                    *)
(***************************************************************************)
EXTENDS Integers, Sequences, FiniteSets, TLC

\* ---------------------------------------------------------------- bounds
MaxTotal == 2       \* notifications started in one behaviour
MaxProviders == 2
MaxWidth == 3500   \* provider devices that can be configured

Calls == {1, 2}     \* slots for notifications in flight
ProviderIds == 1..MaxProviders
NoProviderId == 0   \* providerIds[i] read outside the array: undefined
Threw == -1         \* selectProvider threw instead of returning

VARIABLES
    enabled,                \* storageSettings.values.enabled
    snapshotMode,           \* storageSettings.values.snapshotMode
    chatCompletions,        \* storageSettings.values.chatCompletions
    currentProviderIndex,   \* LLMNotifierProvider.currentProviderIndex
    notificationStats,      \* LLMNotifier.notificationStats
    call,                   \* per in-flight sendNotification: its locals and position
    selected,               \* what the last direct selectProvider calls returned
    probe                   \* a helper function's arguments and, once applied, its value

vars == <<enabled, snapshotMode, chatCompletions, currentProviderIndex,
          notificationStats, call, selected, probe>>

\* ---------------------------------------------------------------- values
\* A JavaScript value as <<typeof, text>>.
Str(s) == <<"string", s>>
Num == <<"number", "42">>
Undef == <<"undefined", "">>
TypeOf(v) == v[1]

Title0 == Str("title0")
Subtitle0 == Str("subtitle0")
Body0 == Str("body0")
Icon0 == "icon0"

\* The options argument: undefined, or an object with subtitle and body.
NoOptions == [present |-> FALSE, subtitle |-> Undef, body |-> Undef]
Options0 == [present |-> TRUE, subtitle |-> Subtitle0, body |-> Body0]

MediaKinds == {"none", "url", "object"}
SnapshotModes == {"cropped", "full", "both"}

\* What a provider call can settle with: a rejection, a response without
\* choices[0].message, empty content, content that JSON.parse rejects, or
\* content that parses to an object. The parsed objects are the well-formed
\* one and those with one field of another type or missing.
Json(t, s, b) == [title |-> t, subtitle |-> s, body |-> b]
NoJson == Json(Undef, Undef, Undef)
Title1 == Str("title1")
Subtitle1 == Str("subtitle1")
Body1 == Str("body1")
\* A response over the budget the prompt asks for (32, 32 and 80
\* characters): a title and a subtitle of 33 and a body of 81.
OverBudget ==
    Json(Str("A person is walking up the drive."),
         Str("Person at the front door of home."),
         Str("A person in a dark coat is walking up the drive and holding a large parcel today."))
ParsedResponses ==
    {Json(Title1, Subtitle1, Body1), OverBudget}
        \cup {Json(x, Subtitle1, Body1) : x \in {Num, Undef}}
        \cup {Json(Title1, x, Body1) : x \in {Num, Undef}}
        \cup {Json(Title1, Subtitle1, x) : x \in {Num, Undef}}
ProviderOutcomes ==
    {[kind |-> k, json |-> NoJson] : k \in {"reject", "nochoices", "empty", "notjson"}}
        \cup {[kind |-> "json", json |-> j] : j \in ParsedResponses}

RECURSIVE SeqsOver(_, _)
SeqsOver(S, n) ==
    IF n = 0 THEN {<<>>}
    ELSE LET shorter == SeqsOver(S, n - 1)
         IN shorter \cup {Append(s, x) : s \in {t \in shorter : Len(t) = n - 1}, x \in S}

Distinct(s) == \A i, j \in 1..Len(s) : i # j => s[i] # s[j]

\* The values of the multi-select device setting: lists of distinct devices,
\* the unset setting being the empty list.
AllProviderLists == {s \in SeqsOver(ProviderIds, MaxProviders) : Distinct(s)}

\* The lists the pipeline is run with: every length, in two orders.
Ascending == [k \in 1..MaxProviders |-> k]
Descending == [k \in 1..MaxProviders |-> MaxProviders + 1 - k]
ProviderLists == {SubSeq(s, 1, n) : s \in {Ascending, Descending}, n \in 0..MaxProviders}

\* ---------------------------------------------------------------- helpers
\* No helper function under study.
NoProbe == [fn |-> "none", arg |-> <<>>, done |-> FALSE, out |-> <<>>]

\* buildImageList with the full mode never falling back to the cropped image.
buildImageListFullOnly(mode, full, cropped) ==
    IF mode = "both"
    THEN (IF full # "none" THEN <<full>> ELSE <<>>) \o (IF cropped # "none" THEN <<cropped>> ELSE <<>>)
    ELSE IF mode = "full"
    THEN IF full # "none" THEN <<full>> ELSE <<>>
    ELSE IF cropped # "none" THEN <<cropped>> ELSE IF full # "none" THEN <<full>> ELSE <<>>

\* buildImageList with the cropped mode never falling back to the full frame.
buildImageListCroppedOnly(mode, full, cropped) ==
    IF mode = "both"
    THEN (IF full # "none" THEN <<full>> ELSE <<>>) \o (IF cropped # "none" THEN <<cropped>> ELSE <<>>)
    ELSE IF mode = "full"
    THEN IF full # "none" THEN <<full>> ELSE IF cropped # "none" THEN <<cropped>> ELSE <<>>
    ELSE IF cropped # "none" THEN <<cropped>> ELSE <<>>

buildImageList(mode, full, cropped) ==
    IF mode = "both"
    THEN (IF full # "none" THEN <<full>> ELSE <<>>) \o (IF cropped # "none" THEN <<cropped>> ELSE <<>>)
    ELSE IF mode = "full"
    THEN IF full # "none" THEN <<full>> ELSE IF cropped # "none" THEN <<cropped>> ELSE <<>>
    ELSE IF cropped # "none" THEN <<cropped>> ELSE IF full # "none" THEN <<full>> ELSE <<>>

Min(a, b) == IF a < b THEN a ELSE b
Max(a, b) == IF a > b THEN a ELSE b

\* A JavaScript number: NaN, or a finite value held as its thousandths.
NaN == [nan |-> TRUE, milli |-> 0]
Thousandths(n) == [nan |-> FALSE, milli |-> n]

DigitChars == {"0", "1", "2", "3", "4", "5", "6", "7", "8", "9"}
DigitOf(c) ==
    CASE c = "0" -> 0 [] c = "1" -> 1 [] c = "2" -> 2 [] c = "3" -> 3 [] c = "4" -> 4
      [] c = "5" -> 5 [] c = "6" -> 6 [] c = "7" -> 7 [] c = "8" -> 8 [] c = "9" -> 9
AllDigits(s) == \A k \in 1..Len(s) : s[k] \in DigitChars

RECURSIVE DigitsValue(_)
DigitsValue(s) ==
    IF s = <<>> THEN 0
    ELSE 10 * DigitsValue(SubSeq(s, 1, Len(s) - 1)) + DigitOf(s[Len(s)])

\* The digits after the decimal point, as thousandths (the first three count).
FractionValue(s) ==
    LET d == SubSeq(s, 1, Min(3, Len(s)))
    IN DigitsValue(d) * (CASE Len(d) = 0 -> 1 [] Len(d) = 1 -> 100 [] Len(d) = 2 -> 10 [] Len(d) = 3 -> 1)

\* Number(text) for a text given as its characters: the empty text is 0, a
\* signed decimal literal is its value, any other text is NaN.
StringToNumber(s) ==
    LET signed == Len(s) > 0 /\ s[1] \in {"-", "+"}
        sign == IF Len(s) > 0 /\ s[1] = "-" THEN -1 ELSE 1
        text == IF signed THEN Tail(s) ELSE s
        dots == {k \in 1..Len(text) : text[k] = "."}
        dot == IF dots = {} THEN Len(text) + 1 ELSE CHOOSE k \in dots : \A j \in dots : k <= j
        whole == SubSeq(text, 1, dot - 1)
        fraction == SubSeq(text, dot + 1, Len(text))
    IN IF s = <<>> THEN Thousandths(0)
       ELSE IF ~AllDigits(whole) \/ ~AllDigits(fraction) \/ (whole = <<>> /\ fraction = <<>>)
       THEN NaN
       ELSE Thousandths(sign * (1000 * DigitsValue(whole) + FractionValue(fraction)))

\* A value of the llmTimeoutMs setting: unset, a number or a text.
Unset == [kind |-> "undefined", num |-> NaN, text |-> <<>>]
NumberValue(n) == [kind |-> "number", num |-> n, text |-> <<>>]
TextValue(s) == [kind |-> "string", num |-> NaN, text |-> s]

\* Number(v).
Number(v) ==
    IF v.kind = "number" THEN v.num
    ELSE IF v.kind = "string" THEN StringToNumber(v.text)
    ELSE NaN

\* The deadline in milliseconds: Math.max(1, Number(timeoutSec)) * 1000, the
\* seconds being held as thousandths. Math.max with a NaN is NaN.
llmTimeout(v) ==
    LET timeoutSec == IF v.kind = "undefined" THEN NumberValue(Thousandths(90000)) ELSE v
        n == Number(timeoutSec)
    IN IF n.nan THEN NaN ELSE Thousandths(Max(1000, n.milli))

\* Math.round(a / b) for a >= 0 and b > 0: halves go up.
Round(a, b) == (2 * a + b) \div (2 * b)

\* The target width as the largest step of the ladder below the source width.
targetWidthLargestBelow(sw) ==
    IF sw > 640 THEN 640 ELSE IF sw > 512 THEN 512 ELSE IF sw > 384 THEN 384 ELSE sw

targetWidth(sw) ==
    IF sw > 3000 THEN 640 ELSE IF sw > 1500 THEN 512 ELSE IF sw > 800 THEN 384 ELSE sw

\* The dimensions of what resizeJpegNearest returns for a sw x sh frame.
resizeJpegNearest(sw, sh, width) ==
    LET dw == Min(width, sw)
    IN IF sw = 0 \/ sh = 0 \/ dw = sw
       THEN [width |-> sw, height |-> sh]
       ELSE [width |-> dw, height |-> Max(1, Round(sh * dw, sw))]

\* An input buffer by what jpeg.decode makes of it (line 31): "ok", a
\* width and a height; "nodims", an image without them; "throws", an error.
Jpeg(sw, sh) == [decode |-> "ok", width |-> sw, height |-> sh]
NoDims == [decode |-> "nodims", width |-> 0, height |-> 0]
NotJpeg == [decode |-> "throws", width |-> 0, height |-> 0]

\* A call of resizeJpegNearest(input, targetWidth): whether it threw,
\* whether it returned the input itself, and the dimensions of its result.
\* The decode is in no try, so its error is the call's.
resizeJpegNearestCall(input, width) ==
    IF input.decode = "throws"
    THEN [threw |-> TRUE, same |-> FALSE, width |-> 0, height |-> 0]
    ELSE LET d == resizeJpegNearest(input.width, input.height, width)
         IN [threw |-> FALSE,
             same |-> (input.width = 0 \/ input.height = 0 \/ Min(width, input.width) = input.width),
             width |-> d.width, height |-> d.height]

\* providerIds[i] with JavaScript's 0-based indexing.
At(providerIds, i) ==
    IF i < Len(providerIds) THEN providerIds[i + 1] ELSE NoProviderId

\* selectProvider without the test for an empty list.
selectProviderUnguarded(providerIds, index) ==
    [threw |-> FALSE, providerId |-> At(providerIds, index),
     index |-> IF Len(providerIds) = 0 THEN index ELSE (index + 1) % Len(providerIds)]

\* selectProvider without the advance of the cursor.
selectProviderStuck(providerIds, index) ==
    IF Len(providerIds) = 0
    THEN [threw |-> TRUE, providerId |-> NoProviderId, index |-> index]
    ELSE [threw |-> FALSE, providerId |-> At(providerIds, index), index |-> index]

selectProvider(providerIds, index) ==
    IF Len(providerIds) = 0
    THEN [threw |-> TRUE, providerId |-> NoProviderId, index |-> index]
    ELSE [threw |-> FALSE, providerId |-> At(providerIds, index),
          index |-> (index + 1) % Len(providerIds)]

\* A race that takes every settlement, not only the first.
RaceOpenAlways(race) == race # "none"

\* Promise.race inside withTimeout: only the first settlement is taken.
RaceOpen(race) ==
    race = "pending"

\* The last MaxProviders + 1 provider ids handed out.
Remember(log, id) ==
    IF Len(log) <= MaxProviders THEN Append(log, id) ELSE Append(Tail(log), id)

\* The locals of one sendNotification call and what its collaborators did:
\* stage is how far the call got ("skip", "convthrew", "empty", "noprovider",
\* "nodevice", "timeout", or the kind of the provider's settlement), fetch
\* how the full-frame block ended ("none": cropped mode, nothing to fetch;
\* "failed": no full frame; "ok"), json the parsed response, sent the calls
\* made to the downstream notifier, acked how each of them settled, result
\* what the caller got.
IdleCall == [pc |-> "idle", media |-> "none", given |-> NoOptions, options |-> NoOptions,
             imageUrl |-> "none", fullFrameUrl |-> "none",
             imageUrls |-> <<>>, device |-> NoProviderId,
             prov |-> "none", race |-> "none",
             stage |-> "none", fetch |-> "none", json |-> NoJson,
             sent |-> <<>>, acked |-> <<>>, result |-> "none"]

\* mixinDevice.sendNotification(title, options, media, icon): the call is
\* made now and its promise awaited (or returned) at position nextpc.
Forward(c, title, nextpc) ==
    [c EXCEPT !.sent = Append(@, [title |-> title, options |-> c.options,
                                  media |-> c.media, icon |-> Icon0]),
              !.pc = nextpc]

\* ------------------------------------------------- synchronous segments
\* Each operator below is the code that runs without suspension from one
\* await to the next; it yields the call's new locals together with the
\* rotation cursor.
Segment(c, index) == [call |-> c, index |-> index]

\* Lines 229-262: image choice, provider selection and the provider call.
\* found: whether getDeviceById finds the selected provider device.
CallLLM(c, index, found) ==
    LET imageUrls == buildImageList(snapshotMode, c.fullFrameUrl, c.imageUrl)
        sel == selectProvider(chatCompletions, index)
        device == IF found THEN sel.providerId ELSE NoProviderId
    IN  IF Len(imageUrls) = 0
        THEN Segment(Forward([c EXCEPT !.stage = "empty"], Title0, "fwdskip"), index)
        ELSE IF sel.threw
        THEN Segment(Forward([c EXCEPT !.imageUrls = imageUrls, !.stage = "noprovider"],
                             Title0, "fwdfb"), index)
        ELSE IF device = NoProviderId
        THEN Segment(Forward([c EXCEPT !.imageUrls = imageUrls, !.stage = "nodevice"],
                             Title0, "fwdfb"), sel.index)
        ELSE Segment([c EXCEPT !.imageUrls = imageUrls, !.device = device, !.pc = "llm",
                               !.prov = "pending", !.race = "pending"], sel.index)

\* Lines 181-194: the full frame is fetched only outside cropped mode and
\* when the event names a detection and a source device that offers
\* getDetectionInput (ids).
FullFrame(c, index, ids, found) ==
    IF snapshotMode # "cropped" /\ ids
    THEN Segment([c EXCEPT !.pc = "fetch"], index)
    ELSE IF snapshotMode # "cropped"
    THEN CallLLM([c EXCEPT !.fetch = "failed"], index, found)
    ELSE CallLLM(c, index, found)

\* A type check that also turns down a response over the budget.
ValidWithinBudget(json) ==
    /\ TypeOf(json.title) = "string"
    /\ TypeOf(json.subtitle) = "string"
    /\ TypeOf(json.body) = "string"
    /\ json # OverBudget

\* A type check that forgets the subtitle.
ValidButSubtitle(json) ==
    /\ TypeOf(json.title) = "string"
    /\ TypeOf(json.body) = "string"

\* Line 275.
Valid(json) ==
    /\ TypeOf(json.title) = "string"
    /\ TypeOf(json.subtitle) = "string"
    /\ TypeOf(json.body) = "string"

\* A continuation that calls the provider again when its call rejected.
RespondRetrying(c, r) ==
    LET d == [c EXCEPT !.stage = r.kind, !.json = r.json]
    IN  IF r.kind = "reject"
        THEN [d EXCEPT !.prov = "pending", !.race = "pending"]
        ELSE IF r.kind \in {"nochoices", "empty", "notjson"} \/ ~Valid(r.json)
        THEN Forward(d, Title0, "fwdfb")
        ELSE Forward([d EXCEPT !.options = [present |-> TRUE, subtitle |-> r.json.subtitle,
                                            body |-> r.json.body]],
                     r.json.title, "fwd")

\* Lines 263-291: the continuation of the awaited race when the provider
\* call settled first.
Respond(c, r) ==
    LET d == [c EXCEPT !.stage = r.kind, !.json = r.json]
    IN  IF r.kind \in {"reject", "nochoices", "empty", "notjson"}
        THEN Forward(d, Title0, "fwdfb")
        ELSE IF ~Valid(r.json)
        THEN Forward(d, Title0, "fwdfb")
        ELSE Forward([d EXCEPT !.options = [present |-> TRUE, subtitle |-> r.json.subtitle,
                                            body |-> r.json.body]],
                     r.json.title, "fwd")

\* A skip test that ignores the enabled setting.
SkipsWithoutMedia(media, on) ==
    media = "none"

\* Line 160.
Skips(media, on) ==
    media = "none" \/ ~on

\* Counters that lose the skipped notifications.
CountEnhancedOnly(stats, skipped) ==
    IF skipped
    THEN stats
    ELSE [stats EXCEPT !.total = @ + 1, !.withSnapshot = @ + 1]

\* Lines 157, 161 and 166.
Count(stats, skipped) ==
    IF skipped
    THEN [stats EXCEPT !.total = @ + 1, !.withoutSnapshot = @ + 1]
    ELSE [stats EXCEPT !.total = @ + 1, !.withSnapshot = @ + 1]

Commit(i, seg) ==
    /\ call' = [call EXCEPT ![i] = seg.call]
    /\ currentProviderIndex' = seg.index

\* ---------------------------------------------------------------- actions
Init ==
    /\ enabled \in BOOLEAN
    /\ snapshotMode \in SnapshotModes
    /\ chatCompletions \in ProviderLists
    /\ currentProviderIndex = 0
    /\ notificationStats = [withSnapshot |-> 0, withoutSnapshot |-> 0, total |-> 0]
    /\ call = [i \in Calls |-> IdleCall]
    /\ selected = <<>>
    /\ probe = NoProbe

\* Lines 152-179 and on to the first await.
sendNotification(i, media, options, ids, found) ==
    /\ call[i].pc = "idle"
    /\ \A j \in Calls : j < i => call[j].pc # "idle"
    /\ notificationStats.total < MaxTotal
    /\ LET c == [IdleCall EXCEPT !.media = media, !.given = options, !.options = options]
       IN  IF Skips(media, enabled)
           THEN /\ notificationStats' = Count(notificationStats, TRUE)
                /\ Commit(i, Segment(Forward([c EXCEPT !.stage = "skip"], Title0, "fwdskip"),
                                     currentProviderIndex))
           ELSE /\ notificationStats' = Count(notificationStats, FALSE)
                /\ IF media = "url"
                   THEN Commit(i, FullFrame([c EXCEPT !.imageUrl = "media"],
                                            currentProviderIndex, ids, found))
                   ELSE Commit(i, Segment([c EXCEPT !.pc = "conv"],
                                          currentProviderIndex))
    /\ UNCHANGED <<enabled, snapshotMode, chatCompletions, selected, probe>>

\* Line 175: convertMediaObjectToBuffer of the attached media settles.
ConvertMediaSettles(i, ok, ids, found) ==
    /\ call[i].pc = "conv"
    /\ IF ok
       THEN Commit(i, FullFrame([call[i] EXCEPT !.imageUrl = "data:cropped"],
                                currentProviderIndex, ids, found))
       ELSE Commit(i, Segment([call[i] EXCEPT !.pc = "done", !.result = "error",
                                              !.stage = "convthrew"],
                              currentProviderIndex))
    /\ UNCHANGED <<enabled, snapshotMode, chatCompletions, notificationStats, selected, probe>>

\* Line 194: getDetectionInput settles.
GetDetectionInputSettles(i, ok, found) ==
    /\ call[i].pc = "fetch"
    /\ IF ok
       THEN Commit(i, Segment([call[i] EXCEPT !.pc = "fullconv"],
                              currentProviderIndex))
       ELSE Commit(i, CallLLM([call[i] EXCEPT !.fetch = "failed"], currentProviderIndex, found))
    /\ UNCHANGED <<enabled, snapshotMode, chatCompletions, notificationStats, selected, probe>>

\* Lines 196-206: conversion of the full frame settles; decodes: whether
\* getJpegDimensions can decode the buffer.
FullFrameConvertSettles(i, ok, decodes) ==
    /\ call[i].pc = "fullconv"
    /\ call' = [call EXCEPT ![i].pc = IF ok /\ decodes THEN "resize" ELSE "fullconv2"]
    /\ UNCHANGED <<enabled, snapshotMode, chatCompletions, notificationStats,
                   currentProviderIndex, selected, probe>>

\* Lines 206-216: resizeJpegNearest settles.
ResizeSettles(i, ok, found) ==
    /\ call[i].pc = "resize"
    /\ IF ok
       THEN Commit(i, CallLLM([call[i] EXCEPT !.fullFrameUrl = "data:full-resized",
                                              !.fetch = "ok"],
                              currentProviderIndex, found))
       ELSE Commit(i, Segment([call[i] EXCEPT !.pc = "fullconv2"],
                              currentProviderIndex))
    /\ UNCHANGED <<enabled, snapshotMode, chatCompletions, notificationStats, selected, probe>>

\* Lines 213-222: the second conversion, in the inner catch, settles.
FullFrameRetrySettles(i, ok, found) ==
    /\ call[i].pc = "fullconv2"
    /\ Commit(i, CallLLM([call[i] EXCEPT !.fullFrameUrl = IF ok THEN "data:full" ELSE "none",
                                         !.fetch = IF ok THEN "ok" ELSE "failed"],
                         currentProviderIndex, found))
    /\ UNCHANGED <<enabled, snapshotMode, chatCompletions, notificationStats, selected, probe>>

\* The promise of getChatCompletion settles, before or after the race did.
ProviderSettles(i, r) ==
    /\ call[i].prov = "pending"
    /\ IF RaceOpen(call[i].race)
       THEN call' = [call EXCEPT ![i] =
                        Respond([call[i] EXCEPT !.prov = "settled", !.race = "settled"], r)]
       ELSE call' = [call EXCEPT ![i].prov = "settled"]
    /\ UNCHANGED <<enabled, snapshotMode, chatCompletions, notificationStats,
                   currentProviderIndex, selected, probe>>

\* Line 24: the timer of withTimeout fires; it is cleared once the race settled.
TimerFires(i) ==
    /\ call[i].race = "pending"
    /\ call' = [call EXCEPT ![i] =
                    Forward([call[i] EXCEPT !.race = "settled", !.stage = "timeout"],
                            Title0, "fwdfb")]
    /\ UNCHANGED <<enabled, snapshotMode, chatCompletions, notificationStats,
                   currentProviderIndex, selected, probe>>

\* The downstream notifier's promise settles (lines 163, 246, 286, 290).
DownstreamSettles(i, ok) ==
    /\ call[i].pc \in {"fwdskip", "fwd", "fwdfb"}
    /\ LET c == [call[i] EXCEPT !.acked = Append(@, IF ok THEN "ok" ELSE "error")]
       IN  call' = [call EXCEPT ![i] =
                IF ok THEN [c EXCEPT !.pc = "done", !.result = "ok"]
                ELSE IF call[i].pc = "fwd"
                THEN Forward(c, Title0, "fwdfb")
                ELSE [c EXCEPT !.pc = "done", !.result = "error"]]
    /\ UNCHANGED <<enabled, snapshotMode, chatCompletions, notificationStats,
                   currentProviderIndex, selected, probe>>

\* The caller has its result; the slot serves the next notification.
Return(i) ==
    /\ call[i].pc = "done"
    /\ call' = [call EXCEPT ![i] = IdleCall]
    /\ UNCHANGED <<enabled, snapshotMode, chatCompletions, notificationStats,
                   currentProviderIndex, selected, probe>>

\* Lines 397-399.
putSetting(key, value) ==
    /\ enabled' = IF key = "enabled" THEN value ELSE enabled
    /\ snapshotMode' = IF key = "snapshotMode" THEN value ELSE snapshotMode
    /\ chatCompletions' = IF key = "chatCompletions" THEN value ELSE chatCompletions
    /\ UNCHANGED <<notificationStats, currentProviderIndex, selected, call, probe>>

Settings ==
    ({"enabled"} \X BOOLEAN) \cup ({"snapshotMode"} \X SnapshotModes)
        \cup ({"chatCompletions"} \X ProviderLists)

\* selectProvider called on its own (lines 401-411).
SelectStep ==
    /\ LET sel == selectProvider(chatCompletions, currentProviderIndex)
       IN  /\ currentProviderIndex' = sel.index
           /\ selected' = Remember(selected, IF sel.threw THEN Threw ELSE sel.providerId)
    /\ UNCHANGED <<enabled, snapshotMode, chatCompletions, notificationStats, call, probe>>

\* The steps of notification i, its inputs and its collaborators' answers
\* drawn from the given sets.
PipelineWith(i, medias, optionses, founds, outcomes) ==
    \/ \E media \in medias, options \in optionses, ids \in BOOLEAN, found \in founds :
            sendNotification(i, media, options, ids, found)
    \/ \E ok, ids \in BOOLEAN, found \in founds : ConvertMediaSettles(i, ok, ids, found)
    \/ \E ok \in BOOLEAN, found \in founds : GetDetectionInputSettles(i, ok, found)
    \/ \E ok, decodes \in BOOLEAN : FullFrameConvertSettles(i, ok, decodes)
    \/ \E ok \in BOOLEAN, found \in founds : ResizeSettles(i, ok, found)
    \/ \E ok \in BOOLEAN, found \in founds : FullFrameRetrySettles(i, ok, found)
    \/ \E r \in outcomes : ProviderSettles(i, r)
    \/ TimerFires(i)
    \/ \E ok \in BOOLEAN : DownstreamSettles(i, ok)
    \/ Return(i)

Pipeline(i) ==
    PipelineWith(i, MediaKinds, {NoOptions, Options0}, BOOLEAN, ProviderOutcomes)

\* One notification at a time, under every setting and every change of settings.
Next ==
    \/ Pipeline(1)
    \/ \E s \in Settings : putSetting(s[1], s[2])

Spec == Init /\ [][Next]_vars

\* The provider pool on its own: any list of distinct devices, never changed.
PoolInit ==
    /\ enabled \in BOOLEAN
    /\ snapshotMode \in SnapshotModes
    /\ chatCompletions \in AllProviderLists
    /\ currentProviderIndex = 0
    /\ notificationStats = [withSnapshot |-> 0, withoutSnapshot |-> 0, total |-> 0]
    /\ call = [i \in Calls |-> IdleCall]
    /\ selected = <<>>
    /\ probe = NoProbe

PoolNext == SelectStep

PoolSpec == PoolInit /\ [][PoolNext]_vars

\* Several notifications in flight at once, interleaved at their awaits,
\* over a fixed pool of MaxProviders providers whose devices exist; the
\* provider answers with a well-formed response or rejects.
ConcOutcomes ==
    {[kind |-> "reject", json |-> NoJson], [kind |-> "json", json |-> Json(Title1, Subtitle1, Body1)]}

ConcInit ==
    /\ enabled = TRUE
    /\ snapshotMode \in SnapshotModes
    /\ chatCompletions \in {Ascending, Descending}
    /\ currentProviderIndex = 0
    /\ notificationStats = [withSnapshot |-> 0, withoutSnapshot |-> 0, total |-> 0]
    /\ call = [i \in Calls |-> IdleCall]
    /\ selected = <<>>
    /\ probe = NoProbe

ConcNext == \E i \in Calls : PipelineWith(i, MediaKinds, {Options0}, {TRUE}, ConcOutcomes)

ConcSpec == ConcInit /\ [][ConcNext]_vars

\* Timers fire, the downstream notifier answers and the local resize ends;
\* nothing is assumed of the media converter, the detector or the provider.
\* The helper functions on their own: buildImageList over every mode and
\* presence of the two images, the deadline over the values the timeout
\* setting can hold, the resize over the frame sizes.
TimeoutValues ==
    {Unset}
        \cup {NumberValue(Thousandths(n)) : n \in {-5000, 0, 500, 1000, 1500, 30000, 90000}}
        \cup {NumberValue(NaN)}
        \cup {TextValue(t) : t \in {<<>>, <<"3", "0">>, <<"1", ".", "5">>, <<"-", "2">>,
                                     <<".", "5">>, <<"a", "b", "c">>, <<"3", "0", "s">>}}
Widths == 1..MaxWidth
Heights == {1, 1080, 1969}
TargetWidths == {1, 384, 512, 640, MaxWidth}
Buffers == {Jpeg(sw, sh) : sw \in Widths, sh \in Heights} \cup {NoDims, NotJpeg}

PureInit ==
    /\ enabled = TRUE
    /\ snapshotMode = "cropped"
    /\ chatCompletions = <<>>
    /\ currentProviderIndex = 0
    /\ notificationStats = [withSnapshot |-> 0, withoutSnapshot |-> 0, total |-> 0]
    /\ call = [i \in Calls |-> IdleCall]
    /\ selected = <<>>
    /\ \/ \E mode \in SnapshotModes, full \in {"none", "full"}, cropped \in {"none", "cropped"} :
              probe = [fn |-> "buildImageList", arg |-> <<mode, full, cropped>>,
                       done |-> FALSE, out |-> <<>>]
       \/ \E v \in TimeoutValues :
              probe = [fn |-> "llmTimeout", arg |-> v, done |-> FALSE, out |-> <<>>]
       \/ \E sw \in Widths, sh \in Heights :
              probe = [fn |-> "resize", arg |-> <<sw, sh>>, done |-> FALSE, out |-> <<>>]
       \/ \E input \in Buffers, width \in TargetWidths :
              probe = [fn |-> "resizeJpegNearest", arg |-> <<input, width>>,
                       done |-> FALSE, out |-> <<>>]

\* imageUrls = buildImageList(snapshotMode, fullFrameUrl, imageUrl) (line 242).
BuildImageListStep ==
    /\ probe.fn = "buildImageList" /\ ~probe.done
    /\ probe' = [probe EXCEPT !.done = TRUE,
                               !.out = buildImageList(probe.arg[1], probe.arg[2], probe.arg[3])]
    /\ UNCHANGED <<enabled, snapshotMode, chatCompletions, currentProviderIndex,
                   notificationStats, call, selected>>

\* The deadline handed to withTimeout (lines 259-262).
LlmTimeoutStep ==
    /\ probe.fn = "llmTimeout" /\ ~probe.done
    /\ probe' = [probe EXCEPT !.done = TRUE, !.out = llmTimeout(probe.arg)]
    /\ UNCHANGED <<enabled, snapshotMode, chatCompletions, currentProviderIndex,
                   notificationStats, call, selected>>

\* The automatic target width and the resize of the full frame (lines 197-206).
ResizeStep ==
    /\ probe.fn = "resize" /\ ~probe.done
    /\ LET sw == probe.arg[1]
           sh == probe.arg[2]
       IN probe' = [probe EXCEPT !.done = TRUE,
                                 !.out = resizeJpegNearest(sw, sh, Min(targetWidth(sw), sw))]
    /\ UNCHANGED <<enabled, snapshotMode, chatCompletions, currentProviderIndex,
                   notificationStats, call, selected>>

\* resizeJpegNearest called on any buffer with any target width (lines 30-53).
ResizeJpegNearestStep ==
    /\ probe.fn = "resizeJpegNearest" /\ ~probe.done
    /\ probe' = [probe EXCEPT !.done = TRUE,
                               !.out = resizeJpegNearestCall(probe.arg[1], probe.arg[2])]
    /\ UNCHANGED <<enabled, snapshotMode, chatCompletions, currentProviderIndex,
                   notificationStats, call, selected>>

PureNext == BuildImageListStep \/ LlmTimeoutStep \/ ResizeStep \/ ResizeJpegNearestStep

PureSpec == PureInit /\ [][PureNext]_vars

FairSpec ==
    /\ Spec
    /\ \A i \in Calls : WF_vars(TimerFires(i))
    /\ \A i \in Calls : WF_vars(\E ok \in BOOLEAN : DownstreamSettles(i, ok))
    /\ \A i \in Calls : WF_vars(\E ok, found \in BOOLEAN : ResizeSettles(i, ok, found))

TypeOK ==
    /\ enabled \in BOOLEAN
    /\ snapshotMode \in SnapshotModes
    /\ chatCompletions \in ProviderLists
    /\ currentProviderIndex \in 0..MaxProviders
    /\ notificationStats.total \in 0..MaxTotal
    /\ \A i \in Calls : call[i].pc \in {"idle", "conv", "fetch", "fullconv", "resize",
                                         "fullconv2", "llm", "fwd", "fwdfb", "fwdskip", "done"}

\* ---------------------------------------------------------------- claims
\* The inbound notification as the downstream notifier should see it.
Original(c) == [title |-> Title0, options |-> c.given, media |-> c.media, icon |-> Icon0]

\* The notification with the response's three texts.
Enhanced(c) ==
    [title |-> c.json.title,
     options |-> [present |-> TRUE, subtitle |-> c.json.subtitle, body |-> c.json.body],
     media |-> c.media, icon |-> Icon0]

AllStrings(json) == \A f \in {"title", "subtitle", "body"} : TypeOf(json[f]) = "string"

\* A stage from provider selection through response validation failed.
StageFailed(c) ==
    \/ c.stage \in {"noprovider", "nodevice", "timeout", "reject", "nochoices", "empty", "notjson"}
    \/ c.stage = "json" /\ ~AllStrings(c.json)

\* C1: every inbound call invokes the downstream notifier exactly once:
\* never twice at any moment, and once when the call has returned.
C1_ExactlyOneForward ==
    \A i \in Calls :
        /\ Len(call[i].sent) <= 1
        /\ call[i].pc = "done" => Len(call[i].sent) = 1

\* C2: every inbound call that has started eventually reaches a forward
\* call to the downstream notifier, whatever the collaborators do.
C2_EventuallyForwarded ==
    \A i \in Calls : (call[i].pc # "idle") ~> (Len(call[i].sent) > 0)

\* C3: when a stage from provider selection through validation fails, the
\* downstream notifier receives the original notification, and if it
\* accepts that call the caller sees no error.
C3_StageFailureFallsBack ==
    \A i \in Calls :
        StageFailed(call[i]) =>
            /\ Len(call[i].sent) >= 1
            /\ call[i].sent[1] = Original(call[i])
            /\ (call[i].pc = "done" /\ call[i].acked = <<"ok">>) =>
                   (call[i].result = "ok" /\ Len(call[i].sent) = 1)

C3_Witness ==
    \E i \in Calls :
        /\ call[i].stage = "json" /\ ~AllStrings(call[i].json)
        /\ call[i].given = Options0
        /\ call[i].pc = "done" /\ call[i].result = "ok"

\* C4: when conversion of the attached media object throws, the original
\* notification is forwarded and no exception reaches the caller.
C4_ConversionFailureFallsBack ==
    \A i \in Calls :
        call[i].stage = "convthrew" =>
            (call[i].sent = <<Original(call[i])>> /\ call[i].result # "error")

\* C5: every call that reaches the downstream notifier carries either the
\* original title, subtitle and body or the validated response's three,
\* never a mix, with the inbound media and icon.
C5_OriginalOrEnhanced ==
    \A i \in Calls : \A k \in 1..Len(call[i].sent) :
        \/ call[i].sent[k] = Original(call[i])
        \/ AllStrings(call[i].json) /\ call[i].sent[k] = Enhanced(call[i])

\* A step in which the provider call settles after the race was decided.
LateSettle(i) ==
    /\ call[i].prov = "pending"
    /\ call[i].race = "settled"
    /\ call'[i].prov = "settled"

\* C6: when the deadline elapses first the original notification is
\* forwarded, and the later settlement of the abandoned provider call
\* changes nothing but the state of that provider call: no further
\* downstream call, no change to what was forwarded, to the cursor, to the
\* counters or to the caller's result.
C6_AbandonedCallHasNoEffect ==
    [][\A i \in Calls :
        /\ call'[i].stage = "timeout" =>
               /\ call'[i].sent = <<Original(call'[i])>>
               /\ (call'[i].pc = "done" /\ call'[i].acked = <<"ok">>) => call'[i].result = "ok"
        /\ LateSettle(i) =>
               /\ call[i].stage = "timeout"
               /\ call' = [call EXCEPT ![i].prov = "settled"]
               /\ UNCHANGED <<currentProviderIndex, notificationStats, enabled,
                              snapshotMode, chatCompletions>>]_vars

C6_Witness ==
    \E i \in Calls :
        /\ call[i].stage = "timeout"
        /\ call[i].prov = "settled"
        /\ call[i].pc = "done" /\ call[i].result = "ok"

\* C7: a failed forward call reaches the caller as a failure, on the skip
\* path, the fallback path and the success path.
C7_DeliveryFailureReachesCaller ==
    \A i \in Calls :
        (call[i].pc = "done" /\ \E k \in 1..Len(call[i].acked) : call[i].acked[k] = "error")
            => call[i].result = "error"

\* C8: a call without media, or made while enhancement is disabled,
\* forwards exactly the inbound notification, adds one to total and to
\* withoutSnapshot and nothing to withSnapshot, leaves the cursor alone,
\* and never selects a provider, calls one or fetches the full frame.
C8_SkipPath ==
    [][\A i \in Calls :
        /\ (call[i].pc = "idle" /\ call'[i].pc # "idle"
                /\ (call'[i].media = "none" \/ ~enabled)) =>
               /\ call'[i].stage = "skip"
               /\ call'[i].pc = "fwdskip"
               /\ call'[i].sent = <<Original(call'[i])>>
               /\ call'[i].options = call'[i].given
               /\ notificationStats' =
                      [notificationStats EXCEPT !.total = @ + 1, !.withoutSnapshot = @ + 1]
               /\ currentProviderIndex' = currentProviderIndex
        /\ (call[i].stage = "skip" /\ call'[i].pc # "idle") =>
               /\ call'[i].pc \in {"fwdskip", "done"}
               /\ call'[i].sent = call[i].sent
               /\ call'[i].prov = "none" /\ call'[i].device = NoProviderId
               /\ call'[i].fullFrameUrl = "none"]_vars

C8_Witness ==
    \E i \in Calls :
        /\ call[i].stage = "skip"
        /\ call[i].media # "none"
        /\ call[i].pc = "done" /\ call[i].result = "ok"
        /\ notificationStats.withoutSnapshot = MaxTotal

\* The position of a provider id in the configured list, 0 if absent.
Pos(ids, id) ==
    IF \E k \in 1..Len(ids) : ids[k] = id
    THEN CHOOSE k \in 1..Len(ids) : ids[k] = id
    ELSE 0

\* C9: with a fixed non-empty list of N providers, consecutive selections
\* follow the configured order and wrap: any N consecutive selections
\* return N different configured providers, each selection returns the
\* successor of the one before, the (N+1)-th returns the first again, and
\* the cursor points at the successor of the last one returned.
C9_RoundRobin ==
    LET ids == chatCompletions
        N == Len(ids)
        L == Len(selected)
    IN  N > 0 =>
            /\ \A k \in 1..L : Pos(ids, selected[k]) > 0
            /\ \A k \in 1..(L - 1) :
                   Pos(ids, selected[k + 1]) = (Pos(ids, selected[k]) % N) + 1
            /\ \A k \in 1..L : \A m \in 1..L :
                   (k < m /\ m < k + N) => selected[k] # selected[m]
            /\ \A k \in 1..L : k + N <= L => selected[k + N] = selected[k]
            /\ L > 0 => currentProviderIndex = Pos(ids, selected[L]) % N
            /\ L = 0 => currentProviderIndex = 0

C9_Witness ==
    /\ Len(chatCompletions) = MaxProviders
    /\ Len(selected) = MaxProviders + 1
    /\ selected[MaxProviders + 1] = selected[1]
    /\ selected[1] = chatCompletions[1]
    /\ chatCompletions[1] # 1

\* C10: whenever the configured list is non-empty the rotation cursor is
\* a valid index into it.
C10_CursorInRange ==
    Len(chatCompletions) > 0 => currentProviderIndex < Len(chatCompletions)

\* A step in which notification i gets its provider from selectProvider.
Selects(i) ==
    /\ call[i].device = NoProviderId
    /\ call'[i].device # NoProviderId

\* C11: notifications interleaved at their awaits never share a reading of
\* the cursor: each selection takes the provider at the cursor and moves the
\* cursor by one in the same step, so as long as no more notifications
\* than providers have been enhanced, those in flight hold different
\* providers, the later selection holding the later one in configured order.
C11_InterleavedSelectionsDiffer ==
    [][\A i \in Calls :
        Selects(i) =>
            /\ call'[i].device = At(chatCompletions, currentProviderIndex)
            /\ currentProviderIndex' = (currentProviderIndex + 1) % Len(chatCompletions)
            /\ \A j \in Calls \ {i} :
                   /\ call'[j] = call[j]
                   /\ (/\ call[j].device # NoProviderId
                       /\ notificationStats'.withSnapshot <= Len(chatCompletions)) =>
                          /\ call'[j].device # call'[i].device
                          /\ Pos(chatCompletions, call'[j].device)
                                 < Pos(chatCompletions, call'[i].device)]_vars

C11_Witness ==
    /\ call[1].pc = "llm" /\ call[2].pc = "llm"
    /\ call[1].media = "object"
    /\ call[2].device = chatCompletions[1]
    /\ call[1].device = chatCompletions[2]

\* A step in which notification i starts.
Starts(i) ==
    /\ call[i].pc = "idle"
    /\ call'[i].pc # "idle"

\* C13: every inbound call adds one to total and one to exactly one of
\* withSnapshot and withoutSnapshot, no other step touches the counters,
\* and total = withSnapshot + withoutSnapshot throughout.
C13_CountersCountCalls ==
    [][/\ \A i \in Calls :
            Starts(i) =>
                /\ notificationStats'.total = notificationStats.total + 1
                /\ \/ /\ notificationStats'.withSnapshot = notificationStats.withSnapshot + 1
                      /\ notificationStats'.withoutSnapshot = notificationStats.withoutSnapshot
                   \/ /\ notificationStats'.withSnapshot = notificationStats.withSnapshot
                      /\ notificationStats'.withoutSnapshot = notificationStats.withoutSnapshot + 1
       /\ (\A i \in Calls : ~Starts(i)) => notificationStats' = notificationStats
       /\ notificationStats'.total =
              notificationStats'.withSnapshot + notificationStats'.withoutSnapshot]_vars

C13_Witness ==
    /\ call[1].pc = "llm"
    /\ call[2].pc = "fwdskip"
    /\ notificationStats = [withSnapshot |-> 1, withoutSnapshot |-> 1, total |-> 2]

\* The notifications that went on to enhancement and are past provider selection.
Enhancing ==
    {i \in Calls : call[i].pc \in {"llm", "fwd", "fwdfb", "done"}
                     /\ call[i].stage \notin {"skip", "convthrew", "empty"}}

\* C20: when the same detection arrives through several notifiers, fewer
\* provider calls are made than notifications are enhanced.
C20_CachingSavesProviderCalls ==
    Cardinality(Enhancing) >= 2 =>
        Cardinality({i \in Enhancing : call[i].prov # "none"}) < Cardinality(Enhancing)

\* A step in which notification i comes to the call of selectProvider.
ReachesSelection(i) ==
    /\ call[i].pc \in {"idle", "conv", "fetch", "resize", "fullconv2"}
    /\ call'[i].pc \in {"llm", "fwdfb"}

\* C12: on an empty or unset provider list selectProvider throws without
\* reading a provider id and without moving the cursor, and the
\* notification is forwarded with its original content; it throws in no
\* other case.
C12_EmptyListThrows ==
    [][\A i \in Calls :
        /\ (ReachesSelection(i) /\ Len(chatCompletions) = 0) =>
               /\ call'[i].stage = "noprovider"
               /\ currentProviderIndex' = currentProviderIndex
               /\ call'[i].device = NoProviderId
               /\ call'[i].prov = "none"
               /\ call'[i].pc = "fwdfb"
               /\ call'[i].sent = <<Original(call'[i])>>
        /\ (call[i].stage # "noprovider" /\ call'[i].stage = "noprovider") =>
               (ReachesSelection(i) /\ Len(chatCompletions) = 0)]_vars

C12_Witness ==
    \E i \in Calls :
        /\ call[i].stage = "noprovider"
        /\ currentProviderIndex > 0
        /\ call[i].pc = "done" /\ call[i].result = "ok"

\* C14: the options object the caller supplied has the subtitle and body
\* it was given once sendNotification has completed, on every path.
C14_CallerOptionsUntouched ==
    \A i \in Calls :
        (call[i].pc = "done" /\ call[i].given.present) =>
            /\ call[i].options.subtitle = call[i].given.subtitle
            /\ call[i].options.body = call[i].given.body

\* buildImageList has been applied to this mode and these two images.
Built(mode, full, cropped) ==
    /\ probe.fn = "buildImageList" /\ probe.done
    /\ probe.arg = <<mode, full, cropped>>

\* C15 as stated: the cropped mode gives [cropped], and the empty list
\* whenever cropped is missing; the full mode gives [full], else [cropped],
\* else the empty list; the both mode gives whichever of full and cropped
\* are present, full first.
C15_ModeTableAsStated ==
    /\ Built("cropped", "full", "cropped") => probe.out = <<"cropped">>
    /\ Built("cropped", "none", "cropped") => probe.out = <<"cropped">>
    /\ Built("cropped", "full", "none") => probe.out = <<>>
    /\ Built("cropped", "none", "none") => probe.out = <<>>
    /\ Built("full", "full", "cropped") => probe.out = <<"full">>
    /\ Built("full", "full", "none") => probe.out = <<"full">>
    /\ Built("full", "none", "cropped") => probe.out = <<"cropped">>
    /\ Built("full", "none", "none") => probe.out = <<>>
    /\ Built("both", "full", "cropped") => probe.out = <<"full", "cropped">>
    /\ Built("both", "none", "cropped") => probe.out = <<"cropped">>
    /\ Built("both", "full", "none") => probe.out = <<"full">>
    /\ Built("both", "none", "none") => probe.out = <<>>

\* C15: as stated, except that the cropped mode gives [full] when cropped is
\* missing and the full frame is present; every mode gives the empty list
\* only when both images are missing.
C15_ModeTable ==
    /\ Built("cropped", "full", "cropped") => probe.out = <<"cropped">>
    /\ Built("cropped", "none", "cropped") => probe.out = <<"cropped">>
    /\ Built("cropped", "full", "none") => probe.out = <<"full">>
    /\ Built("cropped", "none", "none") => probe.out = <<>>
    /\ Built("full", "full", "cropped") => probe.out = <<"full">>
    /\ Built("full", "full", "none") => probe.out = <<"full">>
    /\ Built("full", "none", "cropped") => probe.out = <<"cropped">>
    /\ Built("full", "none", "none") => probe.out = <<>>
    /\ Built("both", "full", "cropped") => probe.out = <<"full", "cropped">>
    /\ Built("both", "none", "cropped") => probe.out = <<"cropped">>
    /\ Built("both", "full", "none") => probe.out = <<"full">>
    /\ Built("both", "none", "none") => probe.out = <<>>
    /\ (probe.fn = "buildImageList" /\ probe.done /\ probe.out = <<>>) =>
           (probe.arg[2] = "none" /\ probe.arg[3] = "none")

C15_Witness == Built("cropped", "full", "none") /\ probe.out = <<"full">>

\* C18: whatever the timeout setting holds, the deadline is a whole number
\* of seconds, at least one, in milliseconds: a multiple of 1000 that is at
\* least 1000; the unset setting gives 90000.
C18_DeadlineWholeSeconds ==
    (probe.fn = "llmTimeout" /\ probe.done) =>
        /\ ~probe.out.nan
        /\ probe.out.milli >= 1000
        /\ probe.out.milli % 1000 = 0
        /\ probe.arg = Unset => probe.out.milli = 90000

\* The full frame of this size has been through the resize.
Resized == probe.fn = "resize" /\ probe.done

\* C19 as stated: the target width is the largest of 640, 512, 384 that is
\* smaller than the source width, and the source width itself (no resize)
\* below 800; a 3500 wide frame comes out 640 wide with height
\* round(sh * 640 / 3500), at least 1.
C19_LargestLadderStepBelowSource ==
    Resized =>
        LET sw == probe.arg[1]
            sh == probe.arg[2]
            below == {w \in {640, 512, 384} : w < sw}
        IN /\ sw < 800 => probe.out = [width |-> sw, height |-> sh]
           /\ sw > 800 => probe.out.width = CHOOSE w \in below : \A x \in below : x <= w
           /\ sw = 3500 => /\ probe.out.width = 640
                           /\ probe.out.height = Max(1, (2 * sh * 640 + 3500) \div 7000)

\* h is Math.max(1, Math.round(sh * w / sw)).
IsRoundedHeight(h, sh, w, sw) ==
    \/ h > 1 /\ 2 * h * sw <= 2 * sh * w + sw /\ 2 * sh * w + sw < 2 * (h + 1) * sw
    \/ h = 1 /\ 2 * sh * w + sw < 4 * sw

\* C19: the target width is 640 for a source wider than 3000, 512 for one
\* wider than 1500, 384 for one wider than 800, and a source of 800 or
\* narrower is not resized; a resized frame has height
\* round(sh * width / sw), at least 1, so a 3500 wide frame comes out 640
\* wide with height round(sh * 640 / 3500).
C19_TargetWidthByThreshold ==
    Resized =>
        LET sw == probe.arg[1]
            sh == probe.arg[2]
        IN /\ sw > 3000 => probe.out.width = 640
           /\ (sw > 1500 /\ sw <= 3000) => probe.out.width = 512
           /\ (sw > 800 /\ sw <= 1500) => probe.out.width = 384
           /\ sw <= 800 => probe.out = [width |-> sw, height |-> sh]
           /\ sw > 800 => IsRoundedHeight(probe.out.height, sh, probe.out.width, sw)

C19_Witness ==
    /\ Resized /\ probe.arg = <<3500, 1080>>
    /\ probe.out = [width |-> 640, height |-> 197]

\* A step in which the full-frame block of notification i ends without a
\* full frame: ids missing or no capable source device, getDetectionInput
\* rejecting, or the conversion failing in the try and again in the catch.
FetchFails(i) == call[i].fetch = "none" /\ call'[i].fetch = "failed"

\* C16: when the full-frame fetch fails the call goes on, in the same step,
\* to the image choice and the provider selection: the image list is
\* exactly the cropped image, nothing is forwarded or returned because of
\* the failure, and the provider selectProvider returns is called with that
\* list; the call falls back only when no provider is configured or the
\* selected device does not exist.
C16_FetchFailureSwallowed ==
    [][\A i \in Calls : FetchFails(i) =>
        /\ call'[i].fullFrameUrl = "none"
        /\ call'[i].imageUrl # "none"
        /\ call'[i].imageUrls = <<call'[i].imageUrl>>
        /\ call'[i].result = "none"
        /\ call'[i].acked = <<>>
        /\ \/ /\ call'[i].pc = "llm" /\ call'[i].prov = "pending"
              /\ call'[i].sent = <<>>
              /\ call'[i].device # NoProviderId
              /\ call'[i].device = At(chatCompletions, currentProviderIndex)
           \/ /\ call'[i].stage = "noprovider" /\ Len(chatCompletions) = 0
           \/ /\ call'[i].stage = "nodevice" /\ Len(chatCompletions) > 0]_vars

C16_Witness ==
    \E i \in Calls :
        /\ call[i].fetch = "failed" /\ snapshotMode = "full"
        /\ call[i].media = "object" /\ call[i].imageUrls = <<"data:cropped">>
        /\ call[i].stage = "json" /\ AllStrings(call[i].json)
        /\ call[i].sent = <<Enhanced(call[i])>>
        /\ call[i].pc = "done" /\ call[i].result = "ok"

\* C17: when the provider's answer won the race and parsed, the enhanced
\* content is applied if and only if title, subtitle and body are all
\* strings: the first downstream call then carries exactly those three
\* with the inbound media and icon, also when they are over the budget,
\* and otherwise it carries the original notification.
C17_AppliedIffAllStrings ==
    \A i \in Calls :
        call[i].stage = "json" =>
            /\ Len(call[i].sent) >= 1
            /\ AllStrings(call[i].json) <=> call[i].sent[1] = Enhanced(call[i])
            /\ ~AllStrings(call[i].json) => call[i].sent[1] = Original(call[i])
            /\ (call[i].pc = "done" /\ call[i].acked = <<"ok">>) =>
                   (call[i].result = "ok" /\ Len(call[i].sent) = 1)

C17_Witness ==
    \E i \in Calls :
        /\ call[i].stage = "json" /\ call[i].json = OverBudget
        /\ call[i].sent = <<[title |-> OverBudget.title,
                             options |-> [present |-> TRUE, subtitle |-> OverBudget.subtitle,
                                          body |-> OverBudget.body],
                             media |-> call[i].media, icon |-> Icon0]>>
        /\ call[i].pc = "done" /\ call[i].result = "ok"

\* The ways a provider call can end: the kinds of its settlement and the
\* deadline.
CallEndings == {"reject", "nochoices", "empty", "notjson", "json", "timeout"}

\* C21: a notification selects a provider at most once and calls at most
\* one: the cursor moves only in the step in which a notification reaches
\* selection, by one (modulo the length of a non-empty list); a device is
\* taken and a provider call issued only in that step, for the device at
\* the cursor; and once the call has ended, in whatever way, the
\* notification only forwards: no new call, no change of device or cursor.
C21_NoRetry ==
    [][\A i \in Calls :
        /\ (ReachesSelection(i) /\ Len(chatCompletions) > 0) =>
               currentProviderIndex' = (currentProviderIndex + 1) % Len(chatCompletions)
        /\ currentProviderIndex' # currentProviderIndex =>
               \E j \in Calls : ReachesSelection(j)
        /\ (call'[i].device # call[i].device /\ call'[i].device # NoProviderId) =>
               /\ ReachesSelection(i)
               /\ call[i].device = NoProviderId /\ call[i].prov = "none"
               /\ call'[i].device = At(chatCompletions, currentProviderIndex)
        /\ (call[i].prov = "none" /\ call'[i].prov # "none") =>
               (ReachesSelection(i) /\ call'[i].pc = "llm" /\ call'[i].prov = "pending")
        /\ call'[i].stage \in CallEndings =>
               /\ call'[i].race = "settled"
               /\ call'[i].pc \in {"fwd", "fwdfb", "done"}
               /\ call[i].stage \in CallEndings =>
                      /\ call'[i].stage = call[i].stage
                      /\ call'[i].device = call[i].device
                      /\ call'[i].prov # "none"
                      /\ currentProviderIndex' = currentProviderIndex]_vars

C21_Witness ==
    \E i \in Calls :
        /\ notificationStats.withSnapshot = 2
        /\ Len(chatCompletions) = 2 /\ currentProviderIndex = 0
        /\ call[i].device = chatCompletions[2]
        /\ call[i].stage = "timeout" /\ call[i].prov = "settled"
        /\ call[i].sent = <<Original(call[i])>>
        /\ call[i].pc = "done" /\ call[i].result = "ok"

\* C22: resizeJpegNearest never throws; it returns its input unchanged when
\* the target width is at least the source width or the input cannot be
\* decoded, and otherwise a frame of the target width and of height
\* round(sh * targetWidth / sw), at least 1.
C22_NeverThrowsNeverUpscales ==
    (probe.fn = "resizeJpegNearest" /\ probe.done) =>
        LET input == probe.arg[1]
            width == probe.arg[2]
        IN /\ ~probe.out.threw
           /\ (input.decode # "ok" \/ width >= input.width) => probe.out.same
           /\ (input.decode = "ok" /\ width < input.width) =>
                  /\ ~probe.out.same
                  /\ probe.out.width = width
                  /\ IsRoundedHeight(probe.out.height, input.height, width, input.width)

====
